---- MODULE Spec2Model ----
(***************************************************************************)
(* Model of src/api/optimize.js: the texture-pack optimizer's request      *)
(* handler and its helpers (optimizeImage, isImageFile, isCriticalFile,    *)
(* isSoundFile, getFolderPriority, getOptimalResolution).                  *)
(*                                                                         *)
(* Strings are sequences of one-character strings, so that the regular     *)
(* expressions and includes/endsWith/toLowerCase/replace of the source are *)
(* computed character by character.                                        *)
(*                                                                         *)
(* Numbers that the source can make half-integral (baseResolution * 1.5,   *)
(* and everything derived from it) are held in half units: the model value *)
(* is twice the JavaScript value.  H(n) converts an integer to half units. *)
(***************************************************************************)
EXTENDS Integers, Sequences, FiniteSets, TLC

VARIABLES pc, req, fields, zip, idx, optimizedZip, stats, reads, writes,
          generated, responses, call

vars == <<pc, req, fields, zip, idx, optimizedZip, stats, reads, writes,
          generated, responses, call>>

-----------------------------------------------------------------------------
(* Bounds of the model *)

MaxEntries == 2
MaxLen == 3
MaxRes == 600
MaxDim == 2048

-----------------------------------------------------------------------------
(* String literals of the source, as character sequences *)

s_pack_mcmeta ==
    <<"p","a","c","k",".","m","c","m","e","t","a">>
s_pack_png ==
    <<"p","a","c","k",".","p","n","g">>
s_dot_mcmeta ==
    <<".","m","c","m","e","t","a">>
s_dot_json ==
    <<".","j","s","o","n">>
s_dot_bbmodel ==
    <<".","b","b","m","o","d","e","l">>
s_dot_txt ==
    <<".","t","x","t">>
s_dot_properties ==
    <<".","p","r","o","p","e","r","t","i","e","s">>
s_font ==
    <<"f","o","n","t","/">>
s_dot_png ==
    <<".","p","n","g">>
s_dot_jpg ==
    <<".","j","p","g">>
s_dot_jpeg ==
    <<".","j","p","e","g">>
s_dot_ogg ==
    <<".","o","g","g">>
s_dot_wav ==
    <<".","w","a","v">>
s_dot_mp3 ==
    <<".","m","p","3">>
s_modelengine ==
    <<"m","o","d","e","l","e","n","g","i","n","e">>
s_ninja ==
    <<"n","i","n","j","a">>
s_samurai ==
    <<"s","a","m","u","r","a","i">>
s_warrior ==
    <<"w","a","r","r","i","o","r">>
s_mage ==
    <<"m","a","g","e">>
s_assassin ==
    <<"a","s","s","a","s","s","i","n">>
s_paladin ==
    <<"p","a","l","a","d","i","n">>
s_reaper ==
    <<"r","e","a","p","e","r">>
s_dragon ==
    <<"d","r","a","g","o","n">>
s_awakened ==
    <<"a","w","a","k","e","n","e","d">>
s_items ==
    <<"i","t","e","m","s">>
s_weapons ==
    <<"w","e","a","p","o","n","s">>
s_vanilla_textures ==
    <<"a","s","s","e","t","s","/","m","i","n","e","c","r","a","f","t","/","t","e","x","t","u","r","e","s","/">>
s_assets_minecraft ==
    <<"a","s","s","e","t","s","/","m","i","n","e","c","r","a","f","t">>
s_png ==
    <<"p","n","g">>
s_webp ==
    <<"w","e","b","p">>
UpperCase ==
    <<"A","B","C","D","E","F","G","H","I","J","K","L","M","N","O","P","Q","R","S","T","U","V","W","X","Y","Z">>
LowerCase ==
    <<"a","b","c","d","e","f","g","h","i","j","k","l","m","n","o","p","q","r","s","t","u","v","w","x","y","z">>

-----------------------------------------------------------------------------
(* String primitives of JavaScript used by the source *)

\* One character of String.prototype.toLowerCase (ASCII letters).
lowerChar(c) ==
    IF \E i \in 1..Len(UpperCase) : UpperCase[i] = c
    THEN LowerCase[CHOOSE i \in 1..Len(UpperCase) : UpperCase[i] = c]
    ELSE c

toLowerCase(s) ==
    [i \in 1..Len(s) |-> lowerChar(s[i])]

\* String.prototype.includes: sub occurs at some offset of s.
includes(s, sub) ==
    \E i \in 0..(Len(s) - Len(sub)) : SubSeq(s, i + 1, i + Len(sub)) = sub

\* String.prototype.endsWith (case-sensitive).
endsWith(s, suf) ==
    /\ Len(suf) <= Len(s)
    /\ SubSeq(s, Len(s) - Len(suf) + 1, Len(s)) = suf

\* /suf$/i.test(s): a case-insensitive suffix pattern.
testSuffixI(s, suf) ==
    endsWith(toLowerCase(s), suf)

\* /^whole$/i.test(s): a case-insensitive anchored pattern.
testWholeI(s, whole) ==
    toLowerCase(s) = whole

\* /sub/i.test(s): a case-insensitive unanchored pattern.
testContainsI(s, sub) ==
    includes(toLowerCase(s), sub)

\* filename.replace(/\.png$/i, `.${format}`)
replacePngExt(filename, format) ==
    IF testSuffixI(filename, s_dot_png)
    THEN SubSeq(filename, 1, Len(filename) - Len(s_dot_png)) \o <<".">> \o format
    ELSE filename

H(n) == 2 * n

Min(a, b) == IF a <= b THEN a ELSE b

\* Math.round of the rational num / den (den > 0, num >= 0): floor(x + 1/2).
roundDiv(num, den) ==
    (2 * num + den) \div (2 * den)

-----------------------------------------------------------------------------
(* Helpers of the source *)

isImageFile(filename) ==
    \E ext \in {s_dot_png, s_dot_jpg, s_dot_jpeg} : testSuffixI(filename, ext)

criticalSuffixes ==
    {s_dot_mcmeta, s_dot_json, s_dot_bbmodel, s_dot_txt, s_dot_properties}

\* Mutant: the pattern /^pack\.png$/i is missing from the list.
isCriticalFileNoPackPng(filename) ==
    \/ testWholeI(filename, s_pack_mcmeta)
    \/ \E suf \in criticalSuffixes : testSuffixI(filename, suf)
    \/ testContainsI(filename, s_font)

isCriticalFile(filename) ==
    \/ testWholeI(filename, s_pack_mcmeta)
    \/ testWholeI(filename, s_pack_png)
    \/ \E suf \in criticalSuffixes : testSuffixI(filename, suf)
    \/ testContainsI(filename, s_font)

isSoundFile(filename) ==
    \E ext \in {s_dot_ogg, s_dot_wav, s_dot_mp3} : testSuffixI(filename, ext)

priorityKeywords ==
    {s_ninja, s_samurai, s_warrior, s_mage, s_assassin, s_paladin, s_reaper,
     s_dragon, s_awakened}

\* Mutant: the vanilla rule is tried before the items/weapons rule.
getFolderPrioritySwapped(filename) ==
    LET path == toLowerCase(filename) IN
    IF includes(path, s_modelengine) THEN "high"
    ELSE IF \E k \in priorityKeywords : includes(path, k) THEN "high"
    ELSE IF includes(path, s_vanilla_textures) THEN "low"
    ELSE IF includes(path, s_items) \/ includes(path, s_weapons) THEN "medium"
    ELSE "medium"

getFolderPriority(filename) ==
    LET path == toLowerCase(filename) IN
    IF includes(path, s_modelengine) THEN "high"
    ELSE IF \E k \in priorityKeywords : includes(path, k) THEN "high"
    ELSE IF includes(path, s_items) \/ includes(path, s_weapons) THEN "medium"
    ELSE IF includes(path, s_vanilla_textures) THEN "low"
    ELSE "medium"

\* Mutant: the low tier is capped like the high tier.
getOptimalResolutionLowCap(filename, baseResolution, priority) ==
    CASE priority = "high" -> Min(H(baseResolution), H(256))
      [] priority = "medium" -> H(baseResolution)
      [] priority = "low" -> Min(3 * baseResolution, H(256))
      [] OTHER -> H(baseResolution)

\* The result is in half units (baseResolution * 1.5 need not be an integer).
getOptimalResolution(filename, baseResolution, priority) ==
    CASE priority = "high" -> Min(H(baseResolution), H(256))
      [] priority = "medium" -> H(baseResolution)
      [] priority = "low" -> Min(3 * baseResolution, H(512))
      [] OTHER -> H(baseResolution)

-----------------------------------------------------------------------------
(* optimizeImage.  A buffer is [src, enc, len]: the bytes of entry src,     *)
(* either as read (enc = FALSE) or as re-encoded (enc = TRUE), and their    *)
(* length.  The image library is the environment: sharp = [meta, enc],      *)
(* where meta is the outcome of image.metadata() (ok = FALSE: it throws;    *)
(* width or height 0: the field is absent) and enc the outcome of           *)
(* pipeline.toBuffer() (ok = FALSE: it throws; len: the encoded length).    *)

\* Mutant: the target is used without the minimum against the original.
newSizeNoMin(metadata, targetResolution) ==
    LET w == metadata.width
        h == metadata.height
    IN  IF ~(w >= 512 \/ h >= 512)
        THEN [width |-> H(w), height |-> H(h)]
        ELSE IF w = h
        THEN [width |-> targetResolution, height |-> targetResolution]
        ELSE IF w > h
        THEN [width |-> targetResolution,
              height |-> H(roundDiv(targetResolution * h, 2 * w))]
        ELSE [width |-> H(roundDiv(targetResolution * w, 2 * h)),
              height |-> targetResolution]

\* Lines 37-57: the size computed for the resize, in half units.  The
\* quotient newWidth / aspectRatio is taken exactly; Math.round rounds a
\* tie upwards.
newSize(metadata, targetResolution) ==
    LET w == metadata.width
        h == metadata.height
    IN  IF ~(w >= 512 \/ h >= 512)
        THEN [width |-> H(w), height |-> H(h)]
        ELSE IF w = h
        THEN [width |-> Min(targetResolution, H(w)),
              height |-> Min(targetResolution, H(w))]
        ELSE IF w > h
        THEN LET newWidth == Min(targetResolution, H(w))
             IN  [width |-> newWidth,
                  height |-> H(roundDiv(newWidth * h, 2 * w))]
        ELSE LET newHeight == Min(targetResolution, H(h))
             IN  [width |-> H(roundDiv(newHeight * w, 2 * h)),
                  height |-> newHeight]

\* Lines 17-33: the early exits before the pipeline is built.
reachesPipeline(buffer, sharp) ==
    /\ buffer.len # 0
    /\ sharp.meta.ok
    /\ sharp.meta.width # 0 /\ sharp.meta.height # 0
    /\ ~(sharp.meta.width <= 32 /\ sharp.meta.height <= 32)

\* Lines 42, 59-63: the arguments of pipeline.resize, when it is called.
resizeCall(buffer, options, sharp) ==
    IF /\ reachesPipeline(buffer, sharp)
       /\ (sharp.meta.width >= 512 \/ sharp.meta.height >= 512)
    THEN LET size == newSize(sharp.meta, options.targetResolution)
         IN  [called |-> TRUE, width |-> size.width, height |-> size.height]
    ELSE [called |-> FALSE, width |-> 0, height |-> 0]

\* pipeline.resize accepts positive integers only and throws otherwise.
resizeThrows(resize) ==
    /\ resize.called
    /\ \/ resize.width % 2 # 0 \/ resize.width < H(1)
       \/ resize.height % 2 # 0 \/ resize.height < H(1)

\* Mutant: the encoded result is returned without comparing the lengths.
optimizeImageNoCompare(buffer, filename, options, sharp) ==
    IF ~reachesPipeline(buffer, sharp) THEN buffer
    ELSE IF resizeThrows(resizeCall(buffer, options, sharp)) THEN buffer
    ELSE IF ~sharp.enc.ok THEN buffer
    ELSE [src |-> buffer.src, enc |-> TRUE, len |-> sharp.enc.len]

optimizeImage(buffer, filename, options, sharp) ==
    IF ~reachesPipeline(buffer, sharp) THEN buffer
    ELSE IF resizeThrows(resizeCall(buffer, options, sharp)) THEN buffer
    ELSE IF ~sharp.enc.ok THEN buffer
    ELSE IF sharp.enc.len < buffer.len
    THEN [src |-> buffer.src, enc |-> TRUE, len |-> sharp.enc.len]
    ELSE buffer

NoCall ==
    [fn |-> "none"]

callRecord(buffer, filename, options, sharp) ==
    [fn |-> "optimizeImage", buffer |-> buffer, filename |-> filename,
     options |-> options, sharp |-> sharp,
     resize |-> resizeCall(buffer, options, sharp),
     result |-> optimizeImage(buffer, filename, options, sharp)]

-----------------------------------------------------------------------------
(* The inputs the handler is run on *)

\* "pack.png"
n_pack_png ==
    <<"p","a","c","k",".","p","n","g">>
\* "font/a.ogg"
n_font ==
    <<"f","o","n","t","/","a",".","o","g","g">>
\* "a.ogg"
n_sound ==
    <<"a",".","o","g","g">>
\* "mage.png"
n_image ==
    <<"m","a","g","e",".","p","n","g">>
\* "mage.webp"
n_webp ==
    <<"m","a","g","e",".","w","e","b","p">>
\* "d/"
n_dir ==
    <<"d","/">>
\* "assets/minecraft/textures/s.PNG"
n_vanilla ==
    <<"a","s","s","e","t","s","/","m","i","n","e","c","r","a","f","t","/","t","e","x","t","u","r","e","s","/","s",".","P","N","G">>

ZipNames ==
    {n_pack_png, n_font, n_sound, n_image, n_webp, n_dir, n_vanilla}

\* JSZip marks an entry whose name ends in "/" as a directory.
isDir(name) ==
    endsWith(name, <<"/">>)

\* zip.files after JSZip.loadAsync: distinct names, in the archive's order.
Archives ==
    {z \in UNION {[1..n -> ZipNames] : n \in 0..MaxEntries} :
        \A i, j \in DOMAIN z : i # j => z[i] # z[j]}

Methods ==
    {"OPTIONS", "GET", "POST"}

\* The options parsed from the form fields (lines 196-200).
FieldSets ==
    [targetResolution : {300},
     quality : {85},
     format : {s_png, s_webp},
     aggressiveMode : BOOLEAN,
     deviceMode : {"potato", "balanced"}]

NoFields ==
    [targetResolution |-> 256, quality |-> 85, format |-> s_png,
     aggressiveMode |-> FALSE, deviceMode |-> "potato"]

\* Byte lengths of an entry's payload.
Lens ==
    {0, MaxLen}

MetaThrows ==
    [ok |-> FALSE, width |-> 0, height |-> 0]

\* What sharp reports of an entry's bytes in the handler: an empty or
\* undecodable buffer makes metadata() throw, and the metadata of bytes it
\* can read carries both dimensions.
ZipMetas(len) ==
    IF len = 0 THEN {MetaThrows}
    ELSE {MetaThrows} \cup
         {[ok |-> TRUE, width |-> d[1], height |-> d[2]] :
             d \in {<<16, 16>>, <<1024, 1024>>}}

Encs ==
    {[ok |-> FALSE, len |-> 0]} \cup
    {[ok |-> TRUE, len |-> n] : n \in {MaxLen - 1, MaxLen + 1}}

NotEncoded ==
    [ok |-> FALSE, len |-> 0]

\* toBuffer() has an outcome only when optimizeImage gets as far as calling it.
SharpOutcomes(buffer, metas, encs, options) ==
    {s \in [meta : metas, enc : encs \cup {NotEncoded}] :
        \/ /\ reachesPipeline(buffer, s)
           /\ ~resizeThrows(resizeCall(buffer, options, s))
        \/ s.enc = NotEncoded}

-----------------------------------------------------------------------------
(* The request handler (lines 164-373) *)

InitStats ==
    [totalFiles |-> 0, imageFiles |-> 0, soundFiles |-> 0,
     optimizedImages |-> 0, skippedFiles |-> 0, criticalFiles |-> 0,
     hdTexturesFound |-> 0, originalSize |-> 0, optimizedSize |-> 0,
     categories |->
        [modelengine |-> [files |-> 0, saved |-> 0],
         items |-> [files |-> 0, saved |-> 0],
         vanilla |-> [files |-> 0, saved |-> 0],
         sounds |-> [files |-> 0, saved |-> 0]]]

NoFiles == << >>

Init ==
    /\ pc = "idle"
    /\ req = [method |-> "NONE"]
    /\ fields = NoFields
    /\ zip = << >>
    /\ idx = 0
    /\ optimizedZip = NoFiles
    /\ stats = InitStats
    /\ reads = << >>
    /\ writes = << >>
    /\ generated = 0
    /\ responses = << >>
    /\ call = NoCall

\* res.status(status).end() / .json(...) / .send(optimizedBuffer)
respond(status, body, files) ==
    responses' = Append(responses,
                        [status |-> status, body |-> body, files |-> files])

\* optimizedZip.file(name, data): an entry of that name is replaced.
zipFile(archive, name, data) ==
    [n \in DOMAIN archive \cup {name} |->
        IF n = name THEN [dir |-> FALSE, data |-> data] ELSE archive[n]]

NoData ==
    [src |-> << >>, enc |-> FALSE, len |-> 0]

\* optimizedZip.folder(name): the folder is added unless the name exists.
zipFolder(archive, name) ==
    [n \in DOMAIN archive \cup {name} |->
        IF n \in DOMAIN archive THEN archive[n]
        ELSE [dir |-> TRUE, data |-> NoData]]

\* A request arrives (the handler is invoked).
Receive ==
    /\ pc = "idle"
    /\ \E m \in Methods : req' = [method |-> m]
    /\ pc' = "dispatch"
    /\ UNCHANGED <<fields, zip, idx, optimizedZip, stats, reads, writes,
                   generated, responses, call>>

\* Lines 169-171
Options ==
    /\ pc = "dispatch"
    /\ req.method = "OPTIONS"
    /\ respond(200, "empty", NoFiles)
    /\ pc' = "done"
    /\ UNCHANGED <<req, fields, zip, idx, optimizedZip, stats, reads, writes,
                   generated, call>>

\* Lines 173-175
MethodNotAllowed ==
    /\ pc = "dispatch"
    /\ req.method # "OPTIONS"
    /\ req.method # "POST"
    /\ respond(405, "json", NoFiles)
    /\ pc' = "done"
    /\ UNCHANGED <<req, fields, zip, idx, optimizedZip, stats, reads, writes,
                   generated, call>>

\* Lines 177: a POST enters the try block.
Post ==
    /\ pc = "dispatch"
    /\ req.method = "POST"
    /\ pc' = "parse"
    /\ UNCHANGED <<req, fields, zip, idx, optimizedZip, stats, reads, writes,
                   generated, responses, call>>

\* Lines 183-188, 345-372: form.parse reports an error; the catch answers 500.
ParseFail ==
    /\ pc = "parse"
    /\ respond(500, "json", NoFiles)
    /\ pc' = "done"
    /\ UNCHANGED <<req, fields, zip, idx, optimizedZip, stats, reads, writes,
                   generated, call>>

\* Lines 190-193
NoFileUploaded ==
    /\ pc = "parse"
    /\ respond(400, "json", NoFiles)
    /\ pc' = "done"
    /\ UNCHANGED <<req, fields, zip, idx, optimizedZip, stats, reads, writes,
                   generated, call>>

\* Lines 190-200: a file was uploaded; the options are read from the fields.
ParseOk ==
    /\ pc = "parse"
    /\ \E f \in FieldSets : fields' = f
    /\ pc' = "load"
    /\ UNCHANGED <<req, zip, idx, optimizedZip, stats, reads, writes,
                   generated, responses, call>>

\* Lines 203-205, 345-372: readFile or JSZip.loadAsync throws.
LoadFail ==
    /\ pc = "load"
    /\ respond(500, "json", NoFiles)
    /\ pc' = "done"
    /\ UNCHANGED <<req, fields, zip, idx, optimizedZip, stats, reads, writes,
                   generated, call>>

\* Lines 203-225: the archive is read; the output archive and stats are new.
LoadZip ==
    /\ pc = "load"
    /\ \E z \in Archives : zip' = z
    /\ optimizedZip' = NoFiles
    /\ stats' = InitStats
    /\ pc' = "loop"
    /\ UNCHANGED <<req, fields, idx, reads, writes, generated, responses, call>>

\* Mutant: potato mode does not force the aggressive flag.
effectiveOptionsNoForce(f, filename) ==
    LET priority == getFolderPriority(filename)
        optimalRes == getOptimalResolution(filename, f.targetResolution, priority)
    IN  [targetResolution |->
            IF f.deviceMode = "potato" THEN Min(optimalRes, H(256)) ELSE optimalRes,
         quality |->
            IF f.deviceMode = "potato" THEN f.quality - 10 ELSE f.quality,
         format |-> f.format,
         aggressiveMode |-> f.aggressiveMode]

\* Lines 262-263, 272-277: the options the handler passes to optimizeImage.
effectiveOptions(f, filename) ==
    LET priority == getFolderPriority(filename)
        optimalRes == getOptimalResolution(filename, f.targetResolution, priority)
    IN  [targetResolution |->
            IF f.deviceMode = "potato" THEN Min(optimalRes, H(256)) ELSE optimalRes,
         quality |->
            IF f.deviceMode = "potato" THEN f.quality - 10 ELSE f.quality,
         format |-> f.format,
         aggressiveMode |-> f.aggressiveMode \/ f.deviceMode = "potato"]

\* Lines 279-282
newFilename(filename, format) ==
    IF format # s_png /\ endsWith(filename, s_dot_png)
    THEN replacePngExt(filename, format)
    ELSE filename

\* Lines 290-300: the bucket a processed image is counted in.
bucketOf(filename) ==
    IF includes(filename, s_modelengine) THEN "modelengine"
    ELSE IF includes(filename, s_items) \/ includes(filename, s_weapons) THEN "items"
    ELSE IF includes(filename, s_assets_minecraft) THEN "vanilla"
    ELSE "none"

categorize(categories, filename, saved) ==
    LET b == bucketOf(filename) IN
    IF b = "none" THEN categories
    ELSE [categories EXCEPT ![b] = [files |-> @.files + 1, saved |-> @.saved + saved]]

\* The entry the loop is at.
filenameAt == zip[idx + 1]

InLoop ==
    /\ pc = "loop"
    /\ idx < Len(zip)

\* Lines 234-237: the entry's bytes are read and counted.
readStats(s, fileData) ==
    [s EXCEPT !.totalFiles = @ + 1, !.originalSize = @ + fileData.len]

fileDataOf(filename, len) ==
    [src |-> filename, enc |-> FALSE, len |-> len]

\* Lines 229-232
ProcessDirectory ==
    /\ InLoop
    /\ isDir(filenameAt)
    /\ optimizedZip' = zipFolder(optimizedZip, filenameAt)
    /\ idx' = idx + 1
    /\ UNCHANGED <<pc, req, fields, zip, stats, reads, writes, generated,
                   responses, call>>

\* Mutant: a failed read answers with what the output archive holds so far.
ReadFailPartial ==
    /\ InLoop
    /\ ~isDir(filenameAt)
    /\ stats' = [stats EXCEPT !.totalFiles = @ + 1]
    /\ respond(200, "archive", optimizedZip)
    /\ pc' = "done"
    /\ UNCHANGED <<req, fields, zip, idx, optimizedZip, reads, writes,
                   generated, call>>

\* Lines 234-235, 345-372: file.async throws; the outer catch answers 500.
ReadFail ==
    /\ InLoop
    /\ ~isDir(filenameAt)
    /\ stats' = [stats EXCEPT !.totalFiles = @ + 1]
    /\ respond(500, "json", NoFiles)
    /\ pc' = "done"
    /\ UNCHANGED <<req, fields, zip, idx, optimizedZip, reads, writes,
                   generated, call>>

\* Lines 239-245
ProcessCritical ==
    /\ InLoop
    /\ ~isDir(filenameAt)
    /\ isCriticalFile(filenameAt)
    /\ \E len \in Lens :
        LET fileData == fileDataOf(filenameAt, len) IN
        /\ reads' = Append(reads, fileData)
        /\ optimizedZip' = zipFile(optimizedZip, filenameAt, fileData)
        /\ writes' = Append(writes, [name |-> filenameAt, data |-> fileData])
        /\ stats' = [readStats(stats, fileData) EXCEPT
                        !.optimizedSize = @ + fileData.len,
                        !.criticalFiles = @ + 1]
    /\ idx' = idx + 1
    /\ UNCHANGED <<pc, req, fields, zip, generated, responses, call>>

\* Lines 247-254
ProcessSound ==
    /\ InLoop
    /\ ~isDir(filenameAt)
    /\ ~isCriticalFile(filenameAt)
    /\ isSoundFile(filenameAt)
    /\ \E len \in Lens :
        LET fileData == fileDataOf(filenameAt, len) IN
        /\ reads' = Append(reads, fileData)
        /\ optimizedZip' = zipFile(optimizedZip, filenameAt, fileData)
        /\ writes' = Append(writes, [name |-> filenameAt, data |-> fileData])
        /\ stats' = [readStats(stats, fileData) EXCEPT
                        !.optimizedSize = @ + fileData.len,
                        !.soundFiles = @ + 1,
                        !.categories.sounds.files = @ + 1]
    /\ idx' = idx + 1
    /\ UNCHANGED <<pc, req, fields, zip, generated, responses, call>>

\* Mutant: the original length is added to optimizedSize.
imageStatsOriginal(s, filename, fileData, metadata, optimized) ==
    [readStats(s, fileData) EXCEPT
        !.imageFiles = @ + 1,
        !.hdTexturesFound =
            IF metadata.width >= 512 \/ metadata.height >= 512 THEN @ + 1 ELSE @,
        !.optimizedSize = @ + fileData.len,
        !.optimizedImages = @ + 1,
        !.categories = categorize(@, filename, fileData.len - optimized.len)]

\* Lines 256-300: the try block of an image entry runs to its end.
imageStats(s, filename, fileData, metadata, optimized) ==
    [readStats(s, fileData) EXCEPT
        !.imageFiles = @ + 1,
        !.hdTexturesFound =
            IF metadata.width >= 512 \/ metadata.height >= 512 THEN @ + 1 ELSE @,
        !.optimizedSize = @ + optimized.len,
        !.optimizedImages = @ + 1,
        !.categories = categorize(@, filename, fileData.len - optimized.len)]

ProcessImage ==
    /\ InLoop
    /\ ~isDir(filenameAt)
    /\ ~isCriticalFile(filenameAt)
    /\ ~isSoundFile(filenameAt)
    /\ isImageFile(filenameAt)
    /\ \E len \in Lens :
        LET fileData == fileDataOf(filenameAt, len)
            options == effectiveOptions(fields, filenameAt)
        IN  \E sharp \in SharpOutcomes(fileData, ZipMetas(len), Encs, options) :
            LET optimized == optimizeImage(fileData, filenameAt, options, sharp)
                name == newFilename(filenameAt, fields.format)
            IN  /\ sharp.meta.ok
                /\ reads' = Append(reads, fileData)
                /\ call' = callRecord(fileData, filenameAt, options, sharp)
                /\ optimizedZip' = zipFile(optimizedZip, name, optimized)
                /\ writes' = Append(writes, [name |-> name, data |-> optimized])
                /\ stats' = imageStats(stats, filenameAt, fileData, sharp.meta,
                                       optimized)
    /\ idx' = idx + 1
    /\ UNCHANGED <<pc, req, fields, zip, generated, responses>>

\* Mutant: the catch does not count the skipped file.
catchStatsNoSkip(s, fileData) ==
    [readStats(s, fileData) EXCEPT
        !.imageFiles = @ + 1,
        !.optimizedSize = @ + fileData.len]

\* Lines 258, 266, 302-307: sharp(fileData).metadata() throws in the try
\* block; the catch writes the entry through.
catchStats(s, fileData) ==
    [readStats(s, fileData) EXCEPT
        !.imageFiles = @ + 1,
        !.optimizedSize = @ + fileData.len,
        !.skippedFiles = @ + 1]

ProcessImageCatch ==
    /\ InLoop
    /\ ~isDir(filenameAt)
    /\ ~isCriticalFile(filenameAt)
    /\ ~isSoundFile(filenameAt)
    /\ isImageFile(filenameAt)
    /\ \E len \in Lens :
        LET fileData == fileDataOf(filenameAt, len) IN
        /\ MetaThrows \in ZipMetas(len)
        /\ reads' = Append(reads, fileData)
        /\ optimizedZip' = zipFile(optimizedZip, filenameAt, fileData)
        /\ writes' = Append(writes, [name |-> filenameAt, data |-> fileData])
        /\ stats' = catchStats(stats, fileData)
    /\ idx' = idx + 1
    /\ UNCHANGED <<pc, req, fields, zip, generated, responses, call>>

\* Lines 308-312
ProcessOther ==
    /\ InLoop
    /\ ~isDir(filenameAt)
    /\ ~isCriticalFile(filenameAt)
    /\ ~isSoundFile(filenameAt)
    /\ ~isImageFile(filenameAt)
    /\ \E len \in Lens :
        LET fileData == fileDataOf(filenameAt, len) IN
        /\ reads' = Append(reads, fileData)
        /\ optimizedZip' = zipFile(optimizedZip, filenameAt, fileData)
        /\ writes' = Append(writes, [name |-> filenameAt, data |-> fileData])
        /\ stats' = [readStats(stats, fileData) EXCEPT
                        !.optimizedSize = @ + fileData.len]
    /\ idx' = idx + 1
    /\ UNCHANGED <<pc, req, fields, zip, generated, responses, call>>

\* Line 228: the loop has gone over every entry.
EndLoop ==
    /\ pc = "loop"
    /\ idx = Len(zip)
    /\ pc' = "generate"
    /\ UNCHANGED <<req, fields, zip, idx, optimizedZip, stats, reads, writes,
                   generated, responses, call>>

\* Lines 315-343: the archive is serialized once and sent.
Generate ==
    /\ pc = "generate"
    /\ generated' = generated + 1
    /\ respond(200, "archive", optimizedZip)
    /\ pc' = "done"
    /\ UNCHANGED <<req, fields, zip, idx, optimizedZip, stats, reads, writes,
                   call>>

\* Lines 316-320, 345-372: generateAsync throws; the catch answers 500.
GenerateFail ==
    /\ pc = "generate"
    /\ generated' = generated + 1
    /\ respond(500, "json", NoFiles)
    /\ pc' = "done"
    /\ UNCHANGED <<req, fields, zip, idx, optimizedZip, stats, reads, writes,
                   call>>

Next ==
    \/ Receive \/ Options \/ MethodNotAllowed \/ Post
    \/ ParseFail \/ NoFileUploaded \/ ParseOk
    \/ LoadFail \/ LoadZip
    \/ ProcessDirectory \/ ReadFail \/ ProcessCritical \/ ProcessSound
    \/ ProcessImage \/ ProcessImageCatch \/ ProcessOther
    \/ EndLoop \/ Generate \/ GenerateFail

Spec == Init /\ [][Next]_vars

-----------------------------------------------------------------------------
(* The helpers called on their own, over wider inputs than the handler's   *)
(* archives give them.                                                     *)

FnDirs ==
    {<<>>,
     <<"a","s","s","e","t","s","/","m","i","n","e","c","r","a","f","t","/","t","e","x","t","u","r","e","s","/">>,
     <<"A","s","s","e","t","s","/","M","i","n","e","c","r","a","f","t","/","T","e","x","t","u","r","e","s","/">>,
     <<"a","s","s","e","t","s","/","m","i","n","e","c","r","a","f","t","/">>,
     <<"m","o","d","e","l","e","n","g","i","n","e","/">>,
     <<"M","o","d","e","l","E","n","g","i","n","e","/">>,
     <<"i","t","e","m","s","/">>,
     <<"w","e","a","p","o","n","s","/">>,
     <<"m","o","b","s","/">>}

FnBases ==
    priorityKeywords \cup
    {<<"s","t","o","n","e">>,
     <<"i","t","e","m">>,
     <<"D","r","a","g","o","n">>,
     <<"i","m","a","g","e">>}

FnNames ==
    {d1 \o d2 \o b \o s_dot_png : d1 \in FnDirs, d2 \in FnDirs, b \in FnBases}

Tiers ==
    {"high", "medium", "low"}

FnRes ==
    {1, 2, 100, 255, 256, 300, 341, 512, 1000}

\* Every resolution the handler can derive from FnRes, with and without the
\* potato cap, in half units.
FnTargets ==
    LET derived == {getOptimalResolution(<< >>, r, p) : r \in FnRes, p \in Tiers}
    IN  derived \cup {Min(t, H(256)) : t \in derived}

FnOptions ==
    [targetResolution : FnTargets, quality : {85}, format : {s_png, s_webp},
     aggressiveMode : {FALSE}]

FnDims ==
    {0, 1, 2, 3, 32, 33, 300, 511, 512, 513, 600, 767, 1024, MaxDim}

FnMetas(len) ==
    IF len = 0 THEN {MetaThrows}
    ELSE {MetaThrows} \cup
         {[ok |-> TRUE, width |-> w, height |-> h] : w \in FnDims, h \in FnDims}

\* One call of a helper, outside any request.
FnIdle ==
    /\ pc = "idle"
    /\ call = NoCall

\* Encoder outcomes: it throws, or gives fewer, as many or more bytes.
FnEncs ==
    Encs \cup {[ok |-> TRUE, len |-> MaxLen]}

FnQuiet ==
    UNCHANGED <<pc, req, fields, zip, idx, optimizedZip, stats, reads, writes,
                generated, responses>>

CallOptimizeImage ==
    /\ FnIdle
    /\ \E len \in Lens, options \in FnOptions :
        LET buffer == fileDataOf(n_image, len) IN
        \E sharp \in SharpOutcomes(buffer, FnMetas(len), FnEncs, options) :
            call' = callRecord(buffer, n_image, options, sharp)
    /\ FnQuiet

CallGetFolderPriority ==
    /\ FnIdle
    /\ \E filename \in FnNames :
        call' = [fn |-> "getFolderPriority", filename |-> filename,
                 result |-> getFolderPriority(filename)]
    /\ FnQuiet

CallGetOptimalResolution ==
    /\ FnIdle
    /\ \E baseResolution \in 1..MaxRes, priority \in Tiers :
        call' = [fn |-> "getOptimalResolution", baseResolution |-> baseResolution,
                 priority |-> priority,
                 result |-> getOptimalResolution(<< >>, baseResolution, priority)]
    /\ FnQuiet

\* "x.jpg"
n_medium ==
    <<"x",".","j","p","g">>

\* An image name of each tier: high, medium, low.
TierNames ==
    {n_image, n_medium, n_vanilla}

FnFieldSets ==
    [targetResolution : FnRes,
     quality : {85},
     format : {s_png},
     aggressiveMode : {FALSE},
     deviceMode : {"potato", "balanced", "quality"}]

\* Lines 262-277: optimizeImage called as the handler calls it, with the
\* options derived from the request's fields and the entry's name.
CallOptimizeAsHandler ==
    /\ FnIdle
    /\ \E f \in FnFieldSets, filename \in TierNames :
        LET buffer == fileDataOf(filename, MaxLen)
            options == effectiveOptions(f, filename)
        IN  \E sharp \in SharpOutcomes(buffer, FnMetas(MaxLen) \ {MetaThrows},
                                       FnEncs, options) :
            /\ fields' = f
            /\ call' = callRecord(buffer, filename, options, sharp)
    /\ UNCHANGED <<pc, req, zip, idx, optimizedZip, stats, reads, writes,
                   generated, responses>>

NextFn ==
    \/ CallOptimizeImage
    \/ CallGetFolderPriority
    \/ CallGetOptimalResolution
    \/ CallOptimizeAsHandler

SpecFn == Init /\ [][NextFn]_vars

-----------------------------------------------------------------------------
(* Properties of the helpers, checked under SpecFn *)

IsOptimizeImageCall == call.fn = "optimizeImage"

\* C1: optimizeImage never returns more bytes than it was given: it returns
\* the encoded result only when the encoder succeeded with strictly fewer
\* bytes than the input, and the input buffer itself in every other case
\* (empty buffer, metadata unreadable or without dimensions, both dimensions
\* <= 32, encoder output not smaller, any exception).
C1_NeverLarger ==
    IsOptimizeImageCall =>
        LET b == call.buffer
            m == call.sharp.meta
            e == call.sharp.enc
            r == call.result
        IN  /\ r.len <= b.len
            /\ r.enc => /\ e.ok
                        /\ r.len = e.len
                        /\ e.len < b.len
            /\ ~r.enc => r = b
            /\ ( \/ b.len = 0
                 \/ ~m.ok
                 \/ m.width = 0 \/ m.height = 0
                 \/ (m.width <= 32 /\ m.height <= 32)
                 \/ ~e.ok
                 \/ e.len >= b.len ) => r = b

\* C1 witness: the encoder gave fewer bytes and its output was returned.
C1_Witness ==
    /\ IsOptimizeImageCall
    /\ call.result.enc
    /\ call.result.len < call.buffer.len

\* C6: getOptimalResolution gives min(R, 256) for high, R for medium and
\* min(R * 1.5, 512) for low (values in half units); high with R = 512
\* gives 256 and low with R = 256 gives 384.
C6_ResolutionDerivation ==
    call.fn = "getOptimalResolution" =>
        LET R == call.baseResolution
            res == call.result
        IN  /\ call.priority = "high" =>
                res = (IF R <= 256 THEN 2 * R ELSE 2 * 256)
            /\ call.priority = "medium" => res = 2 * R
            /\ call.priority = "low" =>
                res = (IF 3 * R <= 2 * 512 THEN 3 * R ELSE 2 * 512)
            /\ (call.priority = "high" /\ R = 512) => res = 2 * 256
            /\ (call.priority = "low" /\ R = 256) => res = 2 * 384

\* C6 witness: the low tier at base 256 gave 384.
C6_Witness ==
    /\ call.fn = "getOptimalResolution"
    /\ call.priority = "low"
    /\ call.baseResolution = 256
    /\ call.result = 2 * 384

matchesModelengine(path) == includes(path, s_modelengine)

matchesKeyword(path) == \E k \in priorityKeywords : includes(path, k)

matchesItems(path) == includes(path, s_items) \/ includes(path, s_weapons)

matchesVanilla(path) == includes(path, s_vanilla_textures)

\* C9: getFolderPriority gives the tier of the earliest rule the lower-cased
\* path matches: modelengine -> high, a character keyword -> high,
\* items/weapons -> medium, assets/minecraft/textures/ -> low, else medium.
C9_FirstMatch ==
    call.fn = "getFolderPriority" =>
        LET path == toLowerCase(call.filename)
            tier == call.result
        IN  /\ matchesModelengine(path) => tier = "high"
            /\ (~matchesModelengine(path) /\ matchesKeyword(path)) => tier = "high"
            /\ ( /\ ~matchesModelengine(path) /\ ~matchesKeyword(path)
                 /\ matchesItems(path) ) => tier = "medium"
            /\ ( /\ ~matchesModelengine(path) /\ ~matchesKeyword(path)
                 /\ ~matchesItems(path) /\ matchesVanilla(path) ) => tier = "low"
            /\ ( /\ ~matchesModelengine(path) /\ ~matchesKeyword(path)
                 /\ ~matchesItems(path) /\ ~matchesVanilla(path) ) => tier = "medium"

\* C9 witness: a path under the vanilla textures that also contains "items"
\* got the tier of the earlier rule.
C9_Witness ==
    /\ call.fn = "getFolderPriority"
    /\ matchesItems(toLowerCase(call.filename))
    /\ matchesVanilla(toLowerCase(call.filename))
    /\ ~matchesModelengine(toLowerCase(call.filename))
    /\ ~matchesKeyword(toLowerCase(call.filename))
    /\ call.result = "medium"

\* C10: when optimizeImage gets to an image with width >= 512 or height >=
\* 512 it asks for a resize: a square image to min(T, original) both ways; a
\* non-square image with its longer dimension at min(T, that dimension) and
\* the other an integer within 1/2 of the aspect-ratio quotient; neither
\* dimension above the original.  An image with both dimensions below 512
\* is not resized.
C10_ResizeComputation ==
    IsOptimizeImageCall =>
        LET w == call.sharp.meta.width
            h == call.sharp.meta.height
            T == call.options.targetResolution
            rz == call.resize
            decoded == /\ call.buffer.len > 0 /\ call.sharp.meta.ok
                       /\ w > 0 /\ h > 0
        IN  /\ (decoded /\ (w >= 512 \/ h >= 512)) =>
                /\ rz.called
                /\ rz.width <= 2 * w
                /\ rz.height <= 2 * h
                /\ w = h =>
                    /\ rz.width = (IF T <= 2 * w THEN T ELSE 2 * w)
                    /\ rz.height = rz.width
                /\ w > h =>
                    /\ rz.width = (IF T <= 2 * w THEN T ELSE 2 * w)
                    /\ rz.height % 2 = 0
                    /\ rz.height * w - rz.width * h <= w
                    /\ rz.width * h - rz.height * w <= w
                /\ w < h =>
                    /\ rz.height = (IF T <= 2 * h THEN T ELSE 2 * h)
                    /\ rz.width % 2 = 0
                    /\ rz.width * h - rz.height * w <= h
                    /\ rz.height * w - rz.width * h <= h
            /\ (w < 512 /\ h < 512) => ~rz.called

\* C10 witness: a non-square image was resized to a target below its longer
\* dimension, the other dimension rounded from a non-integral quotient.
C10_Witness ==
    /\ IsOptimizeImageCall
    /\ call.resize.called
    /\ call.sharp.meta.width > call.sharp.meta.height
    /\ call.resize.width = call.options.targetResolution
    /\ call.resize.width < 2 * call.sharp.meta.width
    /\ call.resize.height * call.sharp.meta.width
         # call.resize.width * call.sharp.meta.height

-----------------------------------------------------------------------------
(* Properties of the handler, checked under Spec *)

RECURSIVE SumLen(_)
SumLen(bufs) ==
    IF bufs = << >> THEN 0 ELSE Head(bufs).len + SumLen(Tail(bufs))

LoopFinished == pc = "generate"

\* What the claims call a critical name, spelled from the pattern list.
CriticalName(name) ==
    LET l == toLowerCase(name) IN
    \/ l = s_pack_mcmeta
    \/ l = s_pack_png
    \/ endsWith(l, s_dot_mcmeta)
    \/ endsWith(l, s_dot_json)
    \/ endsWith(l, s_dot_bbmodel)
    \/ endsWith(l, s_dot_txt)
    \/ endsWith(l, s_dot_properties)
    \/ includes(l, s_font)

\* C2: once the loop has gone over all entries, every directory entry of the
\* input is a directory of the output, and every file entry of the input is
\* in the output with its own bytes (as read or re-encoded), under its own
\* name or under that name with the extension changed to the output format:
\* no entry is lost or overwritten by another.
C2_RoundTrip ==
    LoopFinished =>
        /\ \A i \in 1..Len(zip) :
            isDir(zip[i]) =>
                /\ zip[i] \in DOMAIN optimizedZip
                /\ optimizedZip[zip[i]].dir
        /\ \A i \in 1..Len(reads) :
            \E n \in {reads[i].src, replacePngExt(reads[i].src, fields.format)} :
                /\ n \in DOMAIN optimizedZip
                /\ ~optimizedZip[n].dir
                /\ optimizedZip[n].data.src = reads[i].src

\* C3: an entry whose name matches a critical pattern is handled as critical
\* only: it is written under its name with the bytes read, its size is added
\* to optimizedSize, criticalFiles grows by one, and no sound or image
\* counter moves and optimizeImage is not called.
C3_CriticalOnly ==
    [][ ( /\ InLoop
          /\ ~isDir(filenameAt)
          /\ CriticalName(filenameAt)
          /\ idx' = idx + 1 )
        =>
        ( /\ Len(reads') = Len(reads) + 1
          /\ reads'[Len(reads')].src = filenameAt
          /\ filenameAt \in DOMAIN optimizedZip'
          /\ optimizedZip'[filenameAt] =
                [dir |-> FALSE, data |-> reads'[Len(reads')]]
          /\ stats'.originalSize = stats.originalSize + reads'[Len(reads')].len
          /\ stats'.optimizedSize = stats.optimizedSize + reads'[Len(reads')].len
          /\ stats'.criticalFiles = stats.criticalFiles + 1
          /\ stats'.totalFiles = stats.totalFiles + 1
          /\ stats'.soundFiles = stats.soundFiles
          /\ stats'.imageFiles = stats.imageFiles
          /\ stats'.optimizedImages = stats.optimizedImages
          /\ stats'.skippedFiles = stats.skippedFiles
          /\ stats'.categories = stats.categories
          /\ call' = call ) ]_vars

\* C3 witness: pack.png, which also has an image extension, and font/a.ogg,
\* which also has a sound extension, have both been handled as critical.
C3_Witness ==
    /\ pc = "loop"
    /\ idx = 2
    /\ {n_pack_png, n_font} \subseteq DOMAIN optimizedZip
    /\ stats.criticalFiles = 2
    /\ stats.imageFiles = 0
    /\ stats.soundFiles = 0

\* The step handles an image entry whose metadata read or recompression
\* fails: metadata() throws (no optimizeImage call is made), or the encoder
\* throws in the call made.
ImageFailureStep ==
    /\ InLoop
    /\ ~isDir(filenameAt)
    /\ ~isCriticalFile(filenameAt)
    /\ ~isSoundFile(filenameAt)
    /\ isImageFile(filenameAt)
    /\ idx' = idx + 1
    /\ \/ call' = call
       \/ /\ call'.fn = "optimizeImage"
          /\ reachesPipeline(call'.buffer, call'.sharp)
          /\ ~call'.sharp.enc.ok

\* C4: an image entry whose metadata read or recompression fails is written
\* under its original name with the bytes read, skippedFiles grows by exactly
\* one, and the loop goes on.
C4_FailureIsolated ==
    [][ ImageFailureStep =>
        ( /\ filenameAt \in DOMAIN optimizedZip'
          /\ optimizedZip'[filenameAt] =
                [dir |-> FALSE, data |-> reads'[Len(reads')]]
          /\ stats'.skippedFiles = stats.skippedFiles + 1
          /\ pc' = "loop" ) ]_vars

\* C5: the options passed to optimizeImage: in potato mode the aggressive
\* flag is on, the quality is the requested one less 10 and the resolution
\* is at most 256; in any other mode the tier-derived resolution, the
\* requested quality and the caller's aggressive flag are passed unchanged.
C5_PotatoOverride ==
    IsOptimizeImageCall =>
        LET o == call.options
            tierRes == getOptimalResolution(call.filename, fields.targetResolution,
                                            getFolderPriority(call.filename))
        IN  /\ fields.deviceMode = "potato" =>
                /\ o.aggressiveMode
                /\ o.quality = fields.quality - 10
                /\ o.targetResolution <= 2 * 256
            /\ fields.deviceMode # "potato" =>
                /\ o.aggressiveMode = fields.aggressiveMode
                /\ o.quality = fields.quality
                /\ o.targetResolution = tierRes

\* C5 witness: potato mode without the caller's aggressive flag, on an image
\* of the low tier whose derived resolution is above 256.
C5_Witness ==
    /\ IsOptimizeImageCall
    /\ fields.deviceMode = "potato"
    /\ ~fields.aggressiveMode
    /\ call.filename = n_vanilla
    /\ call.options.aggressiveMode
    /\ call.options.targetResolution = 2 * 256

\* C7: once the loop has gone over all entries, originalSize is the sum of
\* the lengths read from the file entries and optimizedSize the sum of the
\* lengths written for them: the length read unless the entry was
\* re-encoded, the encoded length then.
C7_StatsConsistency ==
    LoopFinished =>
        /\ Len(reads) = Cardinality({i \in 1..Len(zip) : ~isDir(zip[i])})
        /\ Len(writes) = Len(reads)
        /\ stats.originalSize = SumLen(reads)
        /\ stats.optimizedSize = SumLen([i \in 1..Len(writes) |-> writes[i].data])
        /\ \A i \in 1..Len(writes) :
            /\ writes[i].data.src = reads[i].src
            /\ ~writes[i].data.enc => writes[i].data = reads[i]

\* C7 witness: two entries, one written through and one re-encoded to fewer
\* bytes.
C7_Witness ==
    /\ LoopFinished
    /\ Len(writes) = 2
    /\ \E i \in 1..2 : writes[i].data.enc /\ writes[i].data.len < reads[i].len
    /\ \E i \in 1..2 : ~writes[i].data.enc /\ writes[i].data.len > 0

ArchiveProcessed ==
    zip # << >> \/ idx # 0 \/ reads # << >> \/ writes # << >> \/ generated # 0

\* The response carries the complete output archive, serialized once after
\* the loop went over every entry.
CompleteArchive(r) ==
    /\ r.status = 200
    /\ r.body = "archive"
    /\ r.files = optimizedZip
    /\ idx = Len(zip)
    /\ Len(writes) = Cardinality({i \in 1..Len(zip) : ~isDir(zip[i])})
    /\ generated = 1

\* The response is an error without an archive.
ErrorResponse(r) ==
    /\ r.status \in {400, 405, 500}
    /\ r.body = "json"
    /\ r.files = NoFiles
    /\ r.status = 405 <=> req.method \notin {"POST", "OPTIONS"}
    /\ r.status = 400 => ~ArchiveProcessed

\* C8 as claimed: a finished request has exactly one response, the complete
\* archive with 200 or an error status without archive.
C8_AsClaimed ==
    /\ pc # "done" => responses = << >>
    /\ pc = "done" =>
        /\ Len(responses) = 1
        /\ CompleteArchive(responses[1]) \/ ErrorResponse(responses[1])
        /\ req.method # "POST" => ~ArchiveProcessed

\* C8: a finished request has exactly one response: the complete archive
\* with 200, or an error status (400, 405, 500) without archive, or, for an
\* OPTIONS request, 200 with an empty body; no archive is processed for a
\* method other than POST.
C8_OneResponse ==
    /\ pc # "done" => responses = << >>
    /\ pc = "done" =>
        /\ Len(responses) = 1
        /\ \/ CompleteArchive(responses[1])
           \/ ErrorResponse(responses[1])
           \/ /\ req.method = "OPTIONS"
              /\ responses[1] = [status |-> 200, body |-> "empty", files |-> NoFiles]
        /\ req.method = "OPTIONS" => responses[1].body = "empty"
        /\ req.method # "POST" => ~ArchiveProcessed

\* C8 witness: the read of the second entry failed after the first had been
\* written; the answer is 500 without the archive.
C8_Witness ==
    /\ pc = "done"
    /\ Len(writes) = 1
    /\ idx < Len(zip)
    /\ responses[1].status = 500
    /\ responses[1].files = NoFiles

-----------------------------------------------------------------------------
(* The resize arguments, checked under SpecFn *)

\* The call was made with the options the handler derives from the fields.
CalledAsHandler ==
    /\ IsOptimizeImageCall
    /\ call.options = effectiveOptions(fields, call.filename)

\* C11: whenever optimizeImage, called with the options the handler derives
\* (every tier, every device mode, every positive integer base resolution),
\* asks for a resize of an image with positive integer dimensions, the width
\* and the height it passes are both integers (even in half units) and at
\* least 1.
C11_ResizeArgsPositiveIntegers ==
    (CalledAsHandler /\ call.resize.called) =>
        /\ call.resize.width % 2 = 0
        /\ call.resize.width >= 2 * 1
        /\ call.resize.height % 2 = 0
        /\ call.resize.height >= 2 * 1

-----------------------------------------------------------------------------
(* The counters, checked under Spec *)

\* The entries the loop has finished with.
Processed == SubSeq(zip, 1, idx)

OtherName(name) ==
    ~isCriticalFile(name) /\ ~isSoundFile(name) /\ ~isImageFile(name)

\* The names of file entries that are neither critical, sound nor image.
OtherFileNames ==
    {n \in ZipNames : ~isDir(n) /\ OtherName(n)}

DirectoryNames ==
    {n \in ZipNames : isDir(n)}

\* The file entries among them that were copied through as other.
OthersCopied ==
    Cardinality({i \in 1..idx : zip[i] \in OtherFileNames})

\* The loop stands between two entries, or has gone over all of them.
AtEntryBoundary == pc \in {"loop", "generate"}

\* C12: at every entry boundary the counters partition the files processed
\* so far: imageFiles = optimizedImages + skippedFiles, and totalFiles =
\* criticalFiles + soundFiles + imageFiles + the entries copied through as
\* other; every file entry is counted once in totalFiles, and the directory
\* entries in no counter.
C12_CountersPartition ==
    AtEntryBoundary =>
        /\ stats.imageFiles = stats.optimizedImages + stats.skippedFiles
        /\ stats.totalFiles =
               stats.criticalFiles + stats.soundFiles + stats.imageFiles
               + OthersCopied
        /\ stats.totalFiles =
               Cardinality({i \in 1..idx : Processed[i] \notin DirectoryNames})
        /\ stats.totalFiles = Len(reads)
        /\ stats.criticalFiles >= 0 /\ stats.criticalFiles <= stats.totalFiles
        /\ stats.soundFiles >= 0 /\ stats.soundFiles <= stats.totalFiles
        /\ stats.optimizedImages >= 0
        /\ stats.skippedFiles >= 0
        /\ (\A i \in 1..idx : zip[i] \in DirectoryNames) => stats = InitStats

\* C12 witness: after two image entries, one optimized and one skipped.
C12_Witness ==
    /\ pc = "loop"
    /\ idx = 2
    /\ stats.imageFiles = 2
    /\ stats.optimizedImages = 1
    /\ stats.skippedFiles = 1
    /\ stats.totalFiles = 2

====
